---- MODULE Spec2Model ----
(***************************************************************************)
(* Model of the API base URL resolver (frontend/src/config/api.ts and its  *)
(* two sibling versions) and of the Vite development proxy rule for '/api' *)
(* (the two vite.config versions).                                         *)
(*                                                                         *)
(* A JavaScript string is a sequence of one-character strings, so that     *)
(* String.prototype.replace(/\/$/, '') and the scheme / origin of a URL    *)
(* are computed rather than assumed.  An environment variable is a record  *)
(* [defined, str]: defined = FALSE is JavaScript's undefined.              *)
(*                                                                         *)
(* The resolver reads import.meta.env.VITE_API_URL in the page, the vite   *)
(* config reads process.env.VITE_API_URL in the dev server process: two    *)
(* objects, whose values are independent of each other.                    *)
(***************************************************************************)
EXTENDS Integers, Sequences, FiniteSets, TLC

VARIABLES
    resolverFile,   \* which version of the resolver module is deployed
    proxyFile,      \* which version of the vite config is used
    import_meta_env_VITE_API_URL,   \* import.meta.env.VITE_API_URL, read by the resolver
    process_env_VITE_API_URL,  \* process.env.VITE_API_URL, read by the vite config
    DEV,            \* import.meta.env.DEV
    hostname,       \* window.location.hostname
    loaded,         \* the resolver module has been evaluated
    branch,         \* the return statement getApiBaseUrl left through
    API_BASE_URL,   \* the module-level constant
    hasRead,        \* some importer has read the default export
    lastRead,       \* the value the last reader obtained
    serverStarted,  \* the dev server has evaluated its config
    proxy           \* server.proxy['/api']

vars == <<resolverFile, proxyFile, import_meta_env_VITE_API_URL, process_env_VITE_API_URL, DEV,
          hostname, loaded, branch, API_BASE_URL, hasRead, lastRead,
          serverStarted, proxy>>

----------------------------------------------------------------------------
(* Bounds of the input space *)

\* longest override string generated over Alphabet
MaxLen == 2

Alphabet == {"a", "/"}

RECURSIVE StringsUpTo(_)
StringsUpTo(n) ==
    IF n = 0 THEN {<<>>}
    ELSE LET shorter == StringsUpTo(n - 1)
         IN shorter \cup {Append(s, c) : s \in {t \in shorter : Len(t) = n - 1}, c \in Alphabet}

SampleOverrides ==
    { <<"h", "t", "t", "p", "s", ":", "/", "/", "e", "x", "a", "m", "p", "l", "e", ".", "c", "o", "m", "/", "a", "p", "i", "/">>,
      <<"h", "t", "t", "p", "s", ":", "/", "/", "x", "/", "/">>,
      <<"h", "t", "t", "p", ":", "/", "/", "l", "o", "c", "a", "l", "h", "o", "s", "t", ":", "5", "0", "0", "0">>,
      <<"h", "t", "t", "p", ":", "/", "/", "l", "o", "c", "a", "l", "h", "o", "s", "t", ":", "5", "0", "0", "0", "/", "a", "p", "i">>,
      <<"h", "t", "t", "p", "s", ":", "/", "/", "w", "e", "b", "-", "p", "r", "o", "d", "u", "c", "t", "i", "o", "n", "-", "f", "5", "0", "e", "6", ".", "u", "p", ".", "r", "a", "i", "l", "w", "a", "y", ".", "a", "p", "p">>,
      <<"a", "b", "c">> }

undefined == [defined |-> FALSE, str |-> <<>>]

Overrides ==
    {undefined} \cup {[defined |-> TRUE, str |-> s] : s \in StringsUpTo(MaxLen) \cup SampleOverrides}

Hostnames == {"localhost", "127.0.0.1", "example.com"}

ResolverFiles == {"api.ts", "part_000", "part_001"}

ProxyFiles == {"part_002", "part_003"}

----------------------------------------------------------------------------
(* JavaScript primitives used by the code *)

\* ToBoolean of an environment variable: undefined and '' are falsy
Truthy(v) == v.defined /\ v.str # <<>>

\* s.replace(/\/$/, ''): without the g flag one match is replaced, and the
\* pattern only matches a '/' that is the last character
ReplaceTrailingSlashAll(s) ==
    LET keep == {n \in 0..Len(s) : \A i \in (n + 1)..Len(s) : s[i] = "/"}
        cut == CHOOSE n \in keep : \A m \in keep : n <= m
    IN SubSeq(s, 1, cut)

ReplaceTrailingSlash(s) ==
    IF Len(s) > 0 /\ s[Len(s)] = "/" THEN SubSeq(s, 1, Len(s) - 1) ELSE s

----------------------------------------------------------------------------
(* The resolver: getApiBaseUrl in its three versions *)

baseUrlLocalhost ==
    <<"h", "t", "t", "p", ":", "/", "/", "l", "o", "c", "a", "l", "h", "o", "s", "t", ":", "5", "0", "0", "0", "/", "a", "p", "i">>

\* const baseUrl = 'https://web-production-f50e6.up.railway.app/api'
baseUrl ==
    <<"h", "t", "t", "p", "s", ":", "/", "/", "w", "e", "b", "-", "p", "r", "o", "d", "u", "c", "t", "i", "o", "n", "-", "f", "5", "0", "e", "6", ".", "u", "p", ".", "r", "a", "i", "l", "w", "a", "y", ".", "a", "p", "p", "/", "a", "p", "i">>

\* return '/api'
relativeApi == <<"/", "a", "p", "i">>

\* import.meta.env.DEV || hostname === 'localhost' || hostname === '127.0.0.1'
isLocal(dev, host) == dev \/ host = "localhost" \/ host = "127.0.0.1"

takenBranchLocalFirst(file, env, dev, host) ==
    IF file # "part_001" /\ isLocal(dev, host) THEN "local"
    ELSE IF Truthy(env) THEN "override"
    ELSE "fallback"

\* the chain of if statements: which return statement is executed
takenBranch(file, env, dev, host) ==
    IF Truthy(env) THEN "override"
    ELSE IF file # "part_001" /\ isLocal(dev, host) THEN "local"
    ELSE "fallback"

localValueLocalhost(file) ==
    IF file = "part_000" THEN relativeApi ELSE ReplaceTrailingSlash(baseUrlLocalhost)

\* the value returned inside the local-context if (absent from part_001)
localValue(file) ==
    IF file = "part_000" THEN relativeApi ELSE ReplaceTrailingSlash(baseUrl)

getApiBaseUrl(file, env, dev, host) ==
    LET b == takenBranch(file, env, dev, host)
    IN CASE b = "override" -> ReplaceTrailingSlash(env.str)
         [] b = "local"    -> localValue(file)
         [] b = "fallback" -> ReplaceTrailingSlash(baseUrl)

----------------------------------------------------------------------------
(* The development proxy rule: server.proxy['/api'] in its two versions *)

localhostOrigin ==
    <<"h", "t", "t", "p", ":", "/", "/", "l", "o", "c", "a", "l", "h", "o", "s", "t", ":", "5", "0", "0", "0">>

railwayOrigin ==
    <<"h", "t", "t", "p", "s", ":", "/", "/", "w", "e", "b", "-", "p", "r", "o", "d", "u", "c", "t", "i", "o", "n", "-", "f", "5", "0", "e", "6", ".", "u", "p", ".", "r", "a", "i", "l", "w", "a", "y", ".", "a", "p", "p">>

\* the right operand of || in the target expression
defaultTarget(file) == IF file = "part_002" THEN localhostOrigin ELSE railwayOrigin

proxyTargetIgnoringEnv(file, env) == defaultTarget(file)

\* target: process.env.VITE_API_URL || <default origin>
proxyTarget(file, env) == IF Truthy(env) THEN env.str ELSE defaultTarget(file)

\* secure: false in part_002, true in part_003 (a literal in both)
proxySecure(file) == file = "part_003"

proxyRule(file, env) ==
    [target |-> proxyTarget(file, env),
     changeOrigin |-> TRUE,
     secure |-> proxySecure(file),
     cookieDomainRewrite |-> <<>>]

noProxy == [target |-> <<>>, changeOrigin |-> FALSE, secure |-> FALSE, cookieDomainRewrite |-> <<>>]

----------------------------------------------------------------------------
(* URL helpers used to state the properties *)

IsPrefix(p, s) == Len(p) <= Len(s) /\ SubSeq(s, 1, Len(p)) = p

HttpScheme == <<"h", "t", "t", "p", ":", "/", "/">>

HttpsScheme == <<"h", "t", "t", "p", "s", ":", "/", "/">>

IsHttp(s) == IsPrefix(HttpScheme, s)

IsHttps(s) == IsPrefix(HttpsScheme, s)

IsAbsolute(s) == IsHttp(s) \/ IsHttps(s)

\* scheme://host[:port] of an absolute URL
Origin(s) ==
    LET start == IF IsHttps(s) THEN Len(HttpsScheme) ELSE Len(HttpScheme)
        slashes == {i \in (start + 1)..Len(s) : s[i] = "/"}
        stop == IF slashes = {} THEN Len(s)
                ELSE (CHOOSE i \in slashes : \A j \in slashes : i <= j) - 1
    IN SubSeq(s, 1, stop)

----------------------------------------------------------------------------
(* State machine *)

Init ==
    /\ resolverFile \in ResolverFiles
    /\ proxyFile \in ProxyFiles
    /\ import_meta_env_VITE_API_URL \in Overrides
    /\ process_env_VITE_API_URL \in Overrides
    /\ DEV \in BOOLEAN
    /\ hostname \in Hostnames
    /\ loaded = FALSE
    /\ branch = "none"
    /\ API_BASE_URL = <<>>
    /\ hasRead = FALSE
    /\ lastRead = <<>>
    /\ serverStarted = FALSE
    /\ proxy = noProxy

\* const API_BASE_URL = getApiBaseUrl(), evaluated when the module is loaded
LoadModule ==
    /\ ~loaded
    /\ loaded' = TRUE
    /\ branch' = takenBranch(resolverFile, import_meta_env_VITE_API_URL, DEV, hostname)
    /\ API_BASE_URL' = getApiBaseUrl(resolverFile, import_meta_env_VITE_API_URL, DEV, hostname)
    /\ UNCHANGED <<resolverFile, proxyFile, process_env_VITE_API_URL,
                   import_meta_env_VITE_API_URL, DEV, hostname,
                   hasRead, lastRead, serverStarted, proxy>>

exportedValueReevaluated == getApiBaseUrl(resolverFile, import_meta_env_VITE_API_URL, DEV, hostname)

\* export default API_BASE_URL: importers see the binding of the constant
exportedValue == API_BASE_URL

\* an importing module reads the default export
ReadApiBaseUrl ==
    /\ loaded
    /\ hasRead' = TRUE
    /\ lastRead' = exportedValue
    /\ UNCHANGED <<resolverFile, proxyFile, process_env_VITE_API_URL,
                   import_meta_env_VITE_API_URL, DEV, hostname, loaded,
                   branch, API_BASE_URL, serverStarted, proxy>>

\* the dev server evaluates defineConfig({...}) at startup; the config is
\* evaluated once, so the process environment matters at that moment only
StartDevServer ==
    /\ ~serverStarted
    /\ serverStarted' = TRUE
    /\ proxy' = proxyRule(proxyFile, process_env_VITE_API_URL)
    /\ UNCHANGED <<resolverFile, proxyFile, process_env_VITE_API_URL,
                   import_meta_env_VITE_API_URL, DEV, hostname, loaded,
                   branch, API_BASE_URL, hasRead, lastRead>>

\* the page's environment changes after the module was loaded
ChangeOverride ==
    /\ loaded
    /\ \E v \in Overrides : v # import_meta_env_VITE_API_URL /\ import_meta_env_VITE_API_URL' = v
    /\ UNCHANGED <<resolverFile, proxyFile, process_env_VITE_API_URL, DEV, hostname, loaded, branch,
                   API_BASE_URL, hasRead, lastRead, serverStarted, proxy>>

ChangeBuildMode ==
    /\ loaded
    /\ DEV' = ~DEV
    /\ UNCHANGED <<resolverFile, proxyFile, process_env_VITE_API_URL, import_meta_env_VITE_API_URL, hostname, loaded, branch,
                   API_BASE_URL, hasRead, lastRead, serverStarted, proxy>>

ChangeHostname ==
    /\ loaded
    /\ \E h \in Hostnames : h # hostname /\ hostname' = h
    /\ UNCHANGED <<resolverFile, proxyFile, process_env_VITE_API_URL, import_meta_env_VITE_API_URL, DEV, loaded, branch,
                   API_BASE_URL, hasRead, lastRead, serverStarted, proxy>>

Next ==
    \/ LoadModule
    \/ ReadApiBaseUrl
    \/ StartDevServer
    \/ ChangeOverride
    \/ ChangeBuildMode
    \/ ChangeHostname

Spec == Init /\ [][Next]_vars

TypeOK ==
    /\ resolverFile \in ResolverFiles
    /\ proxyFile \in ProxyFiles
    /\ import_meta_env_VITE_API_URL \in Overrides
    /\ process_env_VITE_API_URL \in Overrides
    /\ DEV \in BOOLEAN
    /\ hostname \in Hostnames
    /\ loaded \in BOOLEAN
    /\ branch \in {"none", "override", "local", "fallback"}
    /\ hasRead \in BOOLEAN
    /\ serverStarted \in BOOLEAN

----------------------------------------------------------------------------
(* Properties *)

\* the step in which the resolver module is evaluated
LoadStep == ~loaded /\ loaded'

\* the step in which the dev server evaluates its config
StartStep == ~serverStarted /\ serverStarted'

EndsInSlash(s) == Len(s) > 0 /\ s[Len(s)] = "/"

ExpectedProductionUrl ==
    <<"h", "t", "t", "p", "s", ":", "/", "/", "w", "e", "b", "-", "p", "r", "o", "d", "u", "c", "t", "i", "o", "n", "-", "f", "5", "0", "e", "6", ".", "u", "p", ".", "r", "a", "i", "l", "w", "a", "y", ".", "a", "p", "p", "/", "a", "p", "i">>

ExpectedRelativeUrl == <<"/", "a", "p", "i">>

\* C1: whenever the module is loaded with a non-empty override v, in every
\* build mode, on every host and in every version of the resolver, the value
\* computed is v itself when v does not end in '/', and v without its final
\* '/' when it does; the override tier wins over the local and fallback tiers.
C1_OverrideWins ==
    [][(LoadStep /\ Truthy(import_meta_env_VITE_API_URL)) =>
          /\ branch' = "override"
          /\ IF EndsInSlash(import_meta_env_VITE_API_URL.str)
             THEN Append(API_BASE_URL', "/") = import_meta_env_VITE_API_URL.str
             ELSE API_BASE_URL' = import_meta_env_VITE_API_URL.str]_vars

\* an override ending in '/' was loaded in a local context and lost its slash
C1_Witness ==
    /\ loaded
    /\ branch = "override"
    /\ isLocal(DEV, hostname)
    /\ API_BASE_URL # <<>>
    /\ Append(API_BASE_URL, "/") = import_meta_env_VITE_API_URL.str

\* C2: the resolved base URL stored in API_BASE_URL never ends in '/',
\* whatever the override, the build mode and the host name were.
C2_NeverTrailingSlash == loaded => ~EndsInSlash(API_BASE_URL)

\* C3: loading with the override absent or empty, DEV false and a host name
\* that is neither 'localhost' nor '127.0.0.1' yields exactly
\* 'https://web-production-f50e6.up.railway.app/api' in every version.
C3_ProductionFallback ==
    [][(LoadStep /\ ~Truthy(import_meta_env_VITE_API_URL) /\ ~DEV
          /\ hostname \notin {"localhost", "127.0.0.1"}) =>
          API_BASE_URL' = ExpectedProductionUrl]_vars

\* loaded in production on a public host with an empty-string override
C3_Witness ==
    /\ loaded
    /\ branch = "fallback"
    /\ import_meta_env_VITE_API_URL = [defined |-> TRUE, str |-> <<>>]
    /\ ~DEV
    /\ hostname = "example.com"
    /\ API_BASE_URL = ExpectedProductionUrl

\* an absolute http(s) URL with a non-empty host
WellFormedUrl(s) ==
    IsAbsolute(s) /\ Len(Origin(s)) > (IF IsHttps(s) THEN Len(HttpsScheme) ELSE Len(HttpScheme))

Malformed(v) == Truthy(v) /\ ~WellFormedUrl(v.str)

\* C4 as stated: every load yields a non-empty string, and an absent or
\* malformed override is treated as absent, i.e. the value is the one the
\* next tier gives for the same build mode and host name.
C4_MalformedTreatedAsAbsent ==
    [][LoadStep =>
          /\ API_BASE_URL' # <<>>
          /\ (~import_meta_env_VITE_API_URL.defined \/ Malformed(import_meta_env_VITE_API_URL)) =>
                API_BASE_URL' = getApiBaseUrl(resolverFile, undefined, DEV, hostname)]_vars

\* C4 amended: there is no error outcome; an absent or empty override falls
\* through to the next tier, whose value is non-empty; a non-empty malformed
\* override is not treated as absent but returned with at most its final '/'
\* removed; the result is the empty string exactly when the override is '/'.
C4_Amended ==
    [][LoadStep =>
          /\ ~Truthy(import_meta_env_VITE_API_URL) =>
                /\ branch' \in {"local", "fallback"}
                /\ API_BASE_URL' \in {ExpectedRelativeUrl, ExpectedProductionUrl}
          /\ Malformed(import_meta_env_VITE_API_URL) =>
                /\ branch' = "override"
                /\ IsPrefix(API_BASE_URL', import_meta_env_VITE_API_URL.str)
                /\ Len(import_meta_env_VITE_API_URL.str) - Len(API_BASE_URL') <= 1
          /\ (API_BASE_URL' = <<>>) <=> (import_meta_env_VITE_API_URL = [defined |-> TRUE, str |-> <<"/">>])]_vars

\* the override '/' was loaded and left the empty string
C4_Witness ==
    /\ loaded
    /\ branch = "override"
    /\ import_meta_env_VITE_API_URL = [defined |-> TRUE, str |-> <<"/">>]
    /\ API_BASE_URL = <<>>

\* C5: in the proxy rule, secure is false whenever the target is plain HTTP
\* and true whenever it is HTTPS, for every value of the override.
C5_SecureTracksScheme ==
    serverStarted =>
        /\ IsHttp(proxy.target) => ~proxy.secure
        /\ IsHttps(proxy.target) => proxy.secure

\* C6: the proxy target is resolved override-first, with the same precedence
\* as the resolver: it is the override the config reads
\* (process.env.VITE_API_URL) when that is present and non-empty, whatever
\* the page's own override is, and the fixed default origin of the config
\* otherwise; without an override, secure is false for the HTTP default and
\* true for the HTTPS default.
C6_ProxyTargetOverrideFirst ==
    [][StartStep =>
          /\ Truthy(process_env_VITE_API_URL) => proxy'.target = process_env_VITE_API_URL.str
          /\ ~Truthy(process_env_VITE_API_URL) =>
                /\ proxy'.target = (IF proxyFile = "part_002" THEN localhostOrigin ELSE railwayOrigin)
                /\ IsHttp(proxy'.target) => ~proxy'.secure
                /\ IsHttps(proxy'.target) => proxy'.secure
                /\ IsAbsolute(proxy'.target)]_vars

\* the dev server started with a non-empty override of its own, different
\* from the page's, and forwards to it
C6_Witness ==
    /\ serverStarted
    /\ Truthy(process_env_VITE_API_URL)
    /\ process_env_VITE_API_URL # import_meta_env_VITE_API_URL
    /\ proxy.target = process_env_VITE_API_URL.str
    /\ proxy.target # defaultTarget(proxyFile)

\* C7: once loaded, API_BASE_URL never changes, whatever happens to the
\* override, the build mode and the host name, and every read of the export
\* returns the value computed at load time.
C7_ComputedOnce ==
    [][loaded =>
          /\ loaded'
          /\ API_BASE_URL' = API_BASE_URL
          /\ hasRead' => lastRead' = API_BASE_URL]_vars

\* the environment now resolves to something else, and a read still returned
\* the value computed at load time
C7_Witness ==
    /\ loaded
    /\ hasRead
    /\ lastRead = API_BASE_URL
    /\ getApiBaseUrl(resolverFile, import_meta_env_VITE_API_URL, DEV, hostname) # API_BASE_URL

\* C9: loading with the override absent or empty in a local context (DEV, or
\* host 'localhost' or '127.0.0.1') yields '/api' in the proxy-based version
\* and the production fallback otherwise, and nothing else; api.ts yields the
\* production fallback for every build mode and host name when the override
\* is absent; the local tier is never reached with a non-empty override.
C9_LocalTier ==
    [][LoadStep =>
          /\ (~Truthy(import_meta_env_VITE_API_URL) /\ (DEV \/ hostname \in {"localhost", "127.0.0.1"})) =>
                /\ API_BASE_URL' \in {ExpectedRelativeUrl, ExpectedProductionUrl}
                /\ (API_BASE_URL' = ExpectedRelativeUrl) <=> (resolverFile = "part_000")
          /\ (~Truthy(import_meta_env_VITE_API_URL) /\ resolverFile = "api.ts") =>
                API_BASE_URL' = ExpectedProductionUrl
          /\ Truthy(import_meta_env_VITE_API_URL) => branch' # "local"]_vars

\* the local tier was taken without an override, in api.ts
C9_Witness ==
    /\ loaded
    /\ branch = "local"
    /\ resolverFile = "api.ts"
    /\ ~Truthy(import_meta_env_VITE_API_URL)
    /\ API_BASE_URL = ExpectedProductionUrl

\* the origin a browser call prefixed with API_BASE_URL ends at: its own
\* origin when it is absolute, the proxy target's when it is the relative '/api'
ReachedOrigin ==
    IF IsAbsolute(API_BASE_URL) THEN Origin(API_BASE_URL) ELSE Origin(proxy.target)

\* C10: in development, once the page and the dev server both run with the
\* same value of the override, the origin the API calls reach through
\* API_BASE_URL is the origin of the proxy rule's target, for every pairing
\* of a resolver version with a proxy version and every value of the override.
C10_SameBackendOrigin ==
    (/\ loaded
     /\ serverStarted
     /\ DEV
     /\ process_env_VITE_API_URL = import_meta_env_VITE_API_URL
     /\ API_BASE_URL = getApiBaseUrl(resolverFile, import_meta_env_VITE_API_URL, DEV, hostname)
     /\ proxy = proxyRule(proxyFile, process_env_VITE_API_URL)
     /\ IsAbsolute(proxy.target)
     /\ (IsAbsolute(API_BASE_URL) \/ API_BASE_URL = ExpectedRelativeUrl))
    => ReachedOrigin = Origin(proxy.target)

====
